---- MODULE Spec2Model ----
(***************************************************************************)
(* Model of the voice-driven chat assistant: the tool registry (tools.py), *)
(* the tool detector (tool_detector.py) and the asynchronous message       *)
(* pipeline (client.py and its second variant client2.py).                 *)
(*                                                                         *)
(* Four specifications are defined.                                        *)
(*   ExecSpec    applies the pure function execute_tool to every call      *)
(*               drawn from a bounded set.                                 *)
(*   DetectSpec  applies the pure function detect_tool to every reply of   *)
(*               the classification model drawn from a bounded set.        *)
(*   Spec        is the pipeline: the bridge thread, the event loop with   *)
(*               the enqueue coroutines, the worker task and shutdown.     *)
(*   FairSpec    is Spec with the fairness the event loop guarantees.      *)
(***************************************************************************)
EXTENDS Integers, Sequences, FiniteSets, TLC

VARIABLES
    variant,          \* "client" (client.py) or "client2" (client2.py)
    detector_set,     \* truth value of the detector condition of process_message
    chat_messages,    \* self.chat_messages, the transcript
    task_queue,       \* items of self.task_queue (asyncio.Queue._queue)
    unfinished,       \* asyncio.Queue._unfinished_tasks
    shutdown_event,   \* self.shutdown_event.is_set()
    handoff,          \* enqueue_message coroutines scheduled by sync_on_message, in loop order
    wPc,              \* position of the worker task
    must_cancel,      \* a cancellation has been requested of the worker task
    cur,              \* the message the worker holds (0: none)
    tools_output,     \* local of process_message
    message_content,  \* local of process_message: the chunks concatenated so far
    shPc,             \* position of the shutdown coroutine
    bridge_stopped,   \* transcription_client.shutdown() has been called
    nCreated,         \* history: utterances created so far (they are numbered 1, 2, ...)
    enqueued,         \* history: utterances in the order task_queue.put accepted them
    started,          \* history: utterances in the order process_message began on them
    ended,            \* history: outcome of each finished process_message, in order
    atStop,           \* history: what held when shutdown set the stop flag
    preChat,          \* history: transcript right before the latest primary-model call
    fired,            \* history: utterances in the order sync_on_message received them
    turnBase,         \* history: transcript when the latest process_message began
    dPc,              \* DetectSpec: "call" before detect_tool, "done" after
    dInput,           \* DetectSpec: the outcome of the classification-model call
    dResult,          \* DetectSpec: what detect_tool did
    ePc,              \* ExecSpec: "call" before execute_tool, "done" after
    eInput,           \* ExecSpec: the tool name, the keyword arguments, the registry
    eResult           \* ExecSpec: what execute_tool did

pipeVars == <<variant, detector_set, chat_messages, task_queue, unfinished,
              shutdown_event, handoff, wPc, must_cancel, cur, tools_output,
              message_content, shPc, bridge_stopped, nCreated, enqueued,
              started, ended, atStop, preChat, fired, turnBase>>
detVars == <<dPc, dInput, dResult>>
execVars == <<ePc, eInput, eResult>>
pureVars == <<detVars, execVars>>
vars == <<pipeVars, pureVars>>

-----------------------------------------------------------------------------
(* Bounds of the model *)

\* most utterances created in one behaviour
MaxMsgs == 2
\* most tool-call directives in one classification-model reply
MaxCalls == 2
\* most chunks in one streamed primary-model reply
MaxChunks == 2

-----------------------------------------------------------------------------
(* Messages.  A text is a sequence of tokens; None and "" are both the      *)
(* empty sequence (the only reader of a nullable text, line 48 of           *)
(* tool_detector.py, tests its truth value first).                          *)

Message(role, content) == [role |-> role, content |-> content, tool_calls |-> <<>>]

\* str(x) of an integer
Str(n) == <<ToString(n)>>

\* str.find: index (from 0) of the first occurrence, -1 when there is none
Find(text, token) ==
    IF \E i \in 1..Len(text) : text[i] = token
    THEN (CHOOSE i \in 1..Len(text) :
              /\ text[i] = token
              /\ \A j \in 1..(i-1) : text[j] # token) - 1
    ELSE -1

-----------------------------------------------------------------------------
(* tools.py *)

\* str(e) of the TypeError a call f(**args) raises when args do not fit f
TypeErrorText == <<"TypeError: unexpected keyword argument">>

Returned(v) == [raised |-> FALSE, ret |-> v, err |-> <<>>]
Raised(e) == [raised |-> TRUE, ret |-> 0, err |-> e]

\* variation of add_numbers: the operands are subtracted
add_numbers_minus(args) ==
    IF DOMAIN args = {"first", "second"}
    THEN Returned(args.first - args.second)
    ELSE Raised(TypeErrorText)

\* def add_numbers(first, second): return first + second, called as f(**args)
add_numbers(args) ==
    IF DOMAIN args = {"first", "second"}
    THEN Returned(args.first + args.second)
    ELSE Raised(TypeErrorText)

\* def get_weather(latitude, longitude), called as f(**args): every failure
\* inside is returned as {"error": ...}; only the binding of **args can raise.
\* The returned dict is abstracted to the integer 0.
get_weather(args) ==
    IF DOMAIN args = {"latitude", "longitude"}
    THEN Returned(0)
    ELSE Raised(TypeErrorText)

ToolNames == {"add_numbers", "get_weather"}

CallTool(name, args) ==
    IF name = "add_numbers" THEN add_numbers(args) ELSE get_weather(args)

\* largest absolute value of an integer argument handed to a tool
MaxArg == 3

\* the parameters a callable binds **kwargs to
Params(name) ==
    IF name = "add_numbers" THEN {"first", "second"} ELSE {"latitude", "longitude"}

\* the parameters of execute_tool itself: def execute_tool(self, tool_name, **kwargs)
OwnParams == {"self", "tool_name"}

NotFoundText(tool_name) == <<"Error: Tool", tool_name, "not found.">>
ExecFailedText(tool_name, err) == <<"Error executing tool", tool_name>> \o err

\* what execute_tool hands back: the callable's own value (is_text = FALSE), or
\* a text; raised = TRUE when the call raises to its caller instead
ExecValue(v) == [raised |-> FALSE, is_text |-> FALSE, ret |-> v, text |-> <<>>]
ExecText(t) == [raised |-> FALSE, is_text |-> TRUE, ret |-> 0, text |-> t]
ExecRaised == [raised |-> TRUE, is_text |-> FALSE, ret |-> 0, text |-> <<>>]

\* lines 95-103, called as execute_tool(tool_name, **kwargs).  A keyword that
\* names one of execute_tool's own parameters collides with it when the call is
\* bound ("got multiple values for argument"): that TypeError is raised at the
\* call, before line 96, outside the try of lines 100-103.
execute_tool(in) ==
    IF DOMAIN in.kwargs \cap OwnParams # {}
    THEN ExecRaised
    ELSE IF in.tool_name \notin in.tools
    THEN ExecText(NotFoundText(in.tool_name))
    ELSE LET r == CallTool(in.tool_name, in.kwargs)
         IN  IF r.raised
             THEN ExecText(ExecFailedText(in.tool_name, r.err))
             ELSE ExecValue(r.ret)

ArgRange == (0 - MaxArg)..MaxArg

KwargsSet ==
    { [first |-> a, second |-> b] : a \in ArgRange, b \in ArgRange }
    \cup
    { <<>>, [first |-> 1], [location |-> 1], [latitude |-> 1, longitude |-> 1],
      [tool_name |-> 1, first |-> 1, second |-> 1] }

ExecNames == ToolNames \cup {"unknown_tool"}

ExecInputs ==
    { [tool_name |-> n, kwargs |-> k, tools |-> t] :
          n \in ExecNames, k \in KwargsSet, t \in { {}, {"add_numbers"}, ToolNames } }

NoExecInput == [tool_name |-> "unknown_tool", kwargs |-> <<>>, tools |-> {}]

ExecIdle ==
    /\ ePc = "idle"
    /\ eInput = NoExecInput
    /\ eResult = ExecValue(0)

-----------------------------------------------------------------------------
(* tool_detector.py *)

InfoReq == "INFO_REQ"

ChatErrorText == <<"ConnectionError">>
JsonErrorText == <<"TypeError: Object of type Message is not JSON serializable">>

\* What detect_tool hands back: the list it returns (or raised = TRUE when an
\* exception leaves it) and, for the record, the callables it invoked.
DetectReturn(messages, executed) ==
    [raised |-> FALSE, out |-> messages, executed |-> executed]

\* variation of HasInfoReq: the marker is looked for at the start only (startswith)
InfoReqAtStart(content) ==
    content # <<>> /\ content[1] = InfoReq

\* line 48: r.message.content and r.message.content.find("INFO_REQ") != -1
HasInfoReq(content) ==
    content # <<>> /\ Find(content, InfoReq) # -1

\* variation of DetectExcept: the exception is logged and raised again
DetectExceptReraise(err, executed) ==
    [raised |-> TRUE, out |-> <<>>, executed |-> executed]

\* lines 75-78: except Exception as e: return [Message(role="tool", content=str(e))]
DetectExcept(err, executed) ==
    DetectReturn(<<Message("tool", err)>>, executed)

\* lines 53-66: the loop over r.message.tool_calls, from directive i on.
\* A name that available_functions does not hold is skipped without a message;
\* an exception of the callable leaves the loop.
RECURSIVE RunToolCalls(_, _, _, _, _)
RunToolCalls(available_functions, tool_calls, i, messages, executed) ==
    IF i > Len(tool_calls)
    THEN [raised |-> FALSE, err |-> <<>>, messages |-> messages, executed |-> executed]
    ELSE LET tool_name == tool_calls[i].name
             tool_args == tool_calls[i].arguments
         IN  IF tool_name \in available_functions
             THEN LET output == CallTool(tool_name, tool_args)
                  IN  IF output.raised
                      THEN [raised |-> TRUE, err |-> output.err, messages |-> messages,
                            executed |-> Append(executed, tool_name)]
                      ELSE RunToolCalls(available_functions, tool_calls, i + 1,
                                        Append(messages, Message("tool", Str(output.ret))),
                                        Append(executed, tool_name))
             ELSE RunToolCalls(available_functions, tool_calls, i + 1, messages, executed)

\* lines 68-71: print(json.dumps(messages)).  The elements are ollama Message
\* objects: json.dumps accepts them when the library makes them dicts and raises
\* TypeError when it makes them model objects (json_ok = FALSE); an empty list
\* always serialises.
JsonDumpsRaises(messages, json_ok) ==
    messages # <<>> /\ ~json_ok

\* lines 38-78.  in: the outcome of chat() (raised, or the reply message), the
\* registry's available_functions and json_ok.
detect_tool(in) ==
    IF in.raised
    THEN DetectExcept(ChatErrorText, <<>>)
    ELSE IF HasInfoReq(in.message.content)
    THEN DetectReturn(<<in.message>>, <<>>)
    ELSE LET run == RunToolCalls(in.tools, in.message.tool_calls, 1, <<>>, <<>>)
         IN  IF run.raised
             THEN DetectExcept(run.err, run.executed)
             ELSE IF JsonDumpsRaises(run.messages, in.json_ok)
             THEN DetectExcept(JsonErrorText, run.executed)
             ELSE DetectReturn(run.messages, run.executed)

-----------------------------------------------------------------------------
(* Replies of the classification model *)

Contents == { <<>>, <<"NO_TOOL">>, <<InfoReq, "city">>, <<"need", InfoReq>> }

Directives ==
    { [name |-> "add_numbers", arguments |-> [first |-> 1, second |-> 1]],
      [name |-> "add_numbers", arguments |-> [first |-> 2, second |-> 3]],
      [name |-> "get_weather", arguments |-> [location |-> 1]],
      [name |-> "unknown_tool", arguments |-> [first |-> 1, second |-> 1]] }

DirectiveSeqs == UNION { [1..n -> Directives] : n \in 0..MaxCalls }

Replies ==
    { [role |-> "assistant", content |-> c, tool_calls |-> tc] :
          c \in Contents, tc \in DirectiveSeqs }

NoReply == [role |-> "assistant", content |-> <<>>, tool_calls |-> <<>>]

Registries == { {}, {"add_numbers"}, ToolNames }

DetectInputs ==
    { [raised |-> FALSE, message |-> r, tools |-> t, json_ok |-> j] :
          r \in Replies, t \in Registries, j \in BOOLEAN }
    \cup
    { [raised |-> TRUE, message |-> NoReply, tools |-> t, json_ok |-> j] :
          t \in Registries, j \in BOOLEAN }

-----------------------------------------------------------------------------
(* client.py / client2.py: construction *)

Variants == {"client", "client2"}

Persona == <<"persona">>

\* the replies the pipeline's detector call draws from
PipeReplies ==
    { r \in Replies :
          /\ r.content \in { <<"NO_TOOL">>, <<InfoReq, "city">> }
          /\ \A i \in 1..Len(r.tool_calls) :
                 r.tool_calls[i] = [name |-> "add_numbers", arguments |-> [first |-> 1, second |-> 1]]
          /\ (r.tool_calls # <<>> => r.content = <<"NO_TOOL">>) }

PipeDetectInputs ==
    { in \in DetectInputs : in.tools = ToolNames /\ (~in.raised => in.message \in PipeReplies) }

NotStopped == [set |-> FALSE, enq |-> <<>>, ended |-> 0, wPc |-> "none"]
NoChat == [called |-> FALSE, failed |-> FALSE, msgs |-> <<>>]
NoResult == DetectReturn(<<>>, <<>>)
NoInput == [raised |-> TRUE, message |-> NoReply, tools |-> {}, json_ok |-> TRUE]

\* __init__, lines 19-46 (client2.py 22-50).  client.py always builds a
\* ToolDetector; client2.py takes tool_detector and tool_manager, None by default.
PipeInit ==
    /\ variant \in Variants
    /\ detector_set \in (IF variant = "client" THEN {TRUE} ELSE BOOLEAN)
    /\ chat_messages = <<Message("system", Persona)>>
    /\ task_queue = <<>>
    /\ unfinished = 0
    /\ shutdown_event = FALSE
    /\ handoff = <<>>
    /\ wPc = "none"
    /\ must_cancel = FALSE
    /\ cur = 0
    /\ tools_output = <<>>
    /\ message_content = <<>>
    /\ shPc = "idle"
    /\ bridge_stopped = FALSE
    /\ nCreated = 0
    /\ enqueued = <<>>
    /\ started = <<>>
    /\ ended = <<>>
    /\ atStop = NotStopped
    /\ preChat = NoChat
    /\ fired = <<>>
    /\ turnBase = <<>>

Init ==
    /\ PipeInit
    /\ dPc = "idle"
    /\ dInput = NoInput
    /\ dResult = NoResult
    /\ ExecIdle

-----------------------------------------------------------------------------
(* The event loop runs one task at a time, up to its next suspension point. *)
(* The worker is suspended (or not running) exactly at these positions;     *)
(* process_message holds no await that suspends, so no other task of the    *)
(* loop runs between the worker's dequeue and its return to queue.get().    *)

Suspended == {"none", "created", "waiting", "woken", "done", "cancelled"}
LoopFree == wPc \in Suspended

Finished == {"done", "cancelled"}

-----------------------------------------------------------------------------
(* asyncio.Queue *)

\* variation of QueuePut: the item goes to the front (a LifoQueue)
QueuePutFront(m) ==
    /\ task_queue' = <<m>> \o task_queue
    /\ unfinished' = unfinished + 1
    /\ enqueued' = Append(enqueued, m)
    /\ wPc' = IF wPc = "waiting" THEN "woken" ELSE wPc

\* Queue.put on the unbounded queue: never suspends; put_nowait appends, counts
\* the unfinished task and wakes the waiting getter.
QueuePut(m) ==
    /\ task_queue' = Append(task_queue, m)
    /\ unfinished' = unfinished + 1
    /\ enqueued' = Append(enqueued, m)
    /\ wPc' = IF wPc = "waiting" THEN "woken" ELSE wPc

\* variation of QueueRest: the item handed out stays in the queue
QueueRestKeeps(q) == q

\* the item get_nowait hands out
QueueFront(q) == Head(q)
QueueRest(q) == Tail(q)

\* variation of JoinBlocks: shutdown does not wait for the queue
JoinNeverBlocks == FALSE

\* Queue.join: suspends only while unfinished tasks remain
JoinBlocks == unfinished > 0

-----------------------------------------------------------------------------
(* sync_on_message, enqueue_message *)

\* lines 48-54, on the transcription thread: run_coroutine_threadsafe schedules
\* enqueue_message(message) on the loop and returns at once.
sync_on_message ==
    /\ nCreated < MaxMsgs
    /\ nCreated' = nCreated + 1
    /\ handoff' = Append(handoff, nCreated + 1)
    /\ fired' = Append(fired, nCreated + 1)
    /\ UNCHANGED <<variant, detector_set, chat_messages, task_queue, unfinished,
                   shutdown_event, wPc, must_cancel, cur, tools_output,
                   message_content, shPc, bridge_stopped, enqueued, started,
                   ended, atStop, preChat, turnBase, pureVars>>

\* variation of handoff_step: the loop runs the coroutine scheduled last
handoff_step_lifo ==
    /\ LoopFree
    /\ handoff # <<>>
    /\ QueuePut(handoff[Len(handoff)])
    /\ handoff' = SubSeq(handoff, 1, Len(handoff) - 1)
    /\ UNCHANGED <<variant, detector_set, chat_messages, shutdown_event,
                   must_cancel, cur, tools_output, message_content, shPc,
                   bridge_stopped, nCreated, started, ended, atStop, preChat,
                   fired, turnBase, pureVars>>

\* the loop runs the scheduled coroutines in the order they were scheduled
handoff_step ==
    /\ LoopFree
    /\ handoff # <<>>
    /\ QueuePut(Head(handoff))
    /\ handoff' = Tail(handoff)
    /\ UNCHANGED <<variant, detector_set, chat_messages, shutdown_event,
                   must_cancel, cur, tools_output, message_content, shPc,
                   bridge_stopped, nCreated, started, ended, atStop, preChat,
                   fired, turnBase, pureVars>>

\* variation of enqueue_message: the utterance is also written to the transcript
enqueue_message_writes ==
    /\ LoopFree
    /\ nCreated < MaxMsgs
    /\ nCreated' = nCreated + 1
    /\ QueuePut(nCreated + 1)
    /\ chat_messages' = Append(chat_messages, Message("user", Str(nCreated + 1)))
    /\ UNCHANGED <<variant, detector_set, shutdown_event, handoff,
                   must_cancel, cur, tools_output, message_content, shPc,
                   bridge_stopped, started, ended, atStop, preChat,
                   fired, turnBase, pureVars>>

\* lines 56-62, awaited directly by a task of the loop
enqueue_message ==
    /\ LoopFree
    /\ nCreated < MaxMsgs
    /\ nCreated' = nCreated + 1
    /\ QueuePut(nCreated + 1)
    /\ UNCHANGED <<variant, detector_set, chat_messages, shutdown_event, handoff,
                   must_cancel, cur, tools_output, message_content, shPc,
                   bridge_stopped, started, ended, atStop, preChat, fired, turnBase, pureVars>>

\* lines 180-184: asyncio.create_task(self.worker()); run() calls it once
run_worker ==
    /\ LoopFree
    /\ wPc = "none"
    /\ wPc' = "created"
    /\ UNCHANGED <<variant, detector_set, chat_messages, task_queue, unfinished,
                   shutdown_event, handoff, must_cancel, cur, tools_output,
                   message_content, shPc, bridge_stopped, nCreated, enqueued,
                   started, ended, atStop, preChat, fired, turnBase, pureVars>>

-----------------------------------------------------------------------------
(* worker, lines 64-76 (client2.py 67-79) *)

\* first step of the task: a cancellation requested before it ever ran is
\* thrown at the coroutine's start, outside its try, and cancels the task
worker_start ==
    /\ wPc = "created"
    /\ wPc' = IF must_cancel THEN "cancelled" ELSE "loop"
    /\ must_cancel' = FALSE
    /\ UNCHANGED <<variant, detector_set, chat_messages, task_queue, unfinished,
                   shutdown_event, handoff, cur, tools_output, message_content,
                   shPc, bridge_stopped, nCreated, enqueued, started, ended,
                   atStop, preChat, fired, turnBase, pureVars>>

\* line 68: while not self.shutdown_event.is_set()
worker_loop ==
    /\ wPc = "loop"
    /\ wPc' = IF shutdown_event THEN "done" ELSE "get"
    /\ UNCHANGED <<variant, detector_set, chat_messages, task_queue, unfinished,
                   shutdown_event, handoff, must_cancel, cur, tools_output,
                   message_content, shPc, bridge_stopped, nCreated, enqueued,
                   started, ended, atStop, preChat, fired, turnBase, pureVars>>

\* Queue.get: waits while the queue is empty, else takes the front item
TakeOrWait ==
    IF task_queue = <<>>
    THEN /\ wPc' = "waiting"
         /\ UNCHANGED <<task_queue, cur>>
    ELSE /\ wPc' = "process"
         /\ cur' = QueueFront(task_queue)
         /\ task_queue' = QueueRest(task_queue)

\* line 70: message = await self.task_queue.get()
worker_get ==
    /\ wPc = "get"
    /\ TakeOrWait
    /\ UNCHANGED <<variant, detector_set, chat_messages, unfinished,
                   shutdown_event, handoff, must_cancel, tools_output,
                   message_content, shPc, bridge_stopped, nCreated, enqueued,
                   started, ended, atStop, preChat, fired, turnBase, pureVars>>

\* the task resumes inside Queue.get: with a cancellation pending CancelledError
\* is thrown there and lines 73-74 leave the loop; otherwise get() rechecks the
\* queue
worker_wake ==
    /\ wPc = "woken"
    /\ IF must_cancel
       THEN /\ wPc' = "done"
            /\ UNCHANGED <<task_queue, cur>>
       ELSE TakeOrWait
    /\ must_cancel' = FALSE
    /\ UNCHANGED <<variant, detector_set, chat_messages, unfinished,
                   shutdown_event, handoff, tools_output, message_content, shPc,
                   bridge_stopped, nCreated, enqueued, started, ended, atStop,
                   preChat, fired, turnBase, pureVars>>

\* line 72: self.task_queue.task_done(); reaching zero sets the queue's
\* _finished event, which wakes a join() that waits on it
worker_task_done ==
    /\ wPc = "taskdone"
    /\ unfinished' = unfinished - 1
    /\ shPc' = IF unfinished' = 0 /\ shPc = "join" THEN "joined" ELSE shPc
    /\ cur' = 0
    /\ wPc' = "loop"
    /\ UNCHANGED <<variant, detector_set, chat_messages, task_queue,
                   shutdown_event, handoff, must_cancel, tools_output,
                   message_content, bridge_stopped, nCreated, enqueued, started,
                   ended, atStop, preChat, fired, turnBase, pureVars>>

\* variation of AfterWorkerError: the exception ends the worker
AfterWorkerErrorStops == "done"

\* where the worker goes after lines 75-76 (except Exception: print)
AfterWorkerError == "loop"

\* lines 75-76: an exception of process_message skips task_done
worker_except ==
    /\ wPc = "except"
    /\ cur' = 0
    /\ wPc' = AfterWorkerError
    /\ UNCHANGED <<variant, detector_set, chat_messages, task_queue, unfinished,
                   shutdown_event, handoff, must_cancel, tools_output,
                   message_content, shPc, bridge_stopped, nCreated, enqueued,
                   started, ended, atStop, preChat, fired, turnBase, pureVars>>

-----------------------------------------------------------------------------
(* process_message, lines 78-119 (client2.py 81-122) *)

\* line 82: the user message is appended first
pm_user ==
    /\ wPc = "process"
    /\ chat_messages' = Append(chat_messages, Message("user", Str(cur)))
    /\ started' = Append(started, cur)
    /\ tools_output' = <<>>
    /\ message_content' = <<>>
    /\ preChat' = NoChat
    /\ turnBase' = chat_messages
    /\ wPc' = IF detector_set THEN "detect" ELSE "chat"
    /\ UNCHANGED <<variant, detector_set, task_queue, unfinished, shutdown_event,
                   handoff, must_cancel, cur, shPc, bridge_stopped, nCreated,
                   enqueued, ended, atStop, fired, pureVars>>

\* line 85: tools_output = self.tool_detector.detect_tool(message)
pm_detect ==
    /\ wPc = "detect"
    /\ \E in \in PipeDetectInputs :
          LET r == detect_tool(in)
          IN  /\ tools_output' = r.out
              /\ wPc' = IF r.raised THEN "except" ELSE "fold"
              /\ ended' = IF r.raised THEN Append(ended, "raised") ELSE ended
    /\ UNCHANGED <<variant, detector_set, chat_messages, task_queue, unfinished,
                   shutdown_event, handoff, must_cancel, cur, message_content,
                   shPc, bridge_stopped, nCreated, enqueued, started, atStop,
                   preChat, fired, turnBase, pureVars>>

\* lines 87-95 of client.py: string_out is each output's text and a newline, put
\* after the fixed instruction
RECURSIVE StringOut(_)
StringOut(out) ==
    IF out = <<>> THEN <<>> ELSE out[1].content \o <<"\n">> \o StringOut(Tail(out))

FinalPrompt(out) ==
    Message("system", <<"Using the tool's output below, provide a concise and relevant response to the user.",
                        "Tool Output:">> \o StringOut(out))

\* lines 86-96 of client.py: the first element of tools_output is appended and
\* line 90 then subscripts it, x['message'], a key no Message holds: KeyError.
\* lines 92-100 of client2.py: every element is appended, then line 98 reads
\* the undefined name tool_output (NameError); with an empty tools_output line
\* 100 reads final_prompt, never assigned (UnboundLocalError).
Fold(v, msgs, out) ==
    IF v = "client"
    THEN IF out # <<>>
         THEN [msgs |-> Append(msgs, out[1]), raised |-> TRUE]
         ELSE [msgs |-> msgs, raised |-> FALSE]
    ELSE [msgs |-> msgs \o out, raised |-> TRUE]

pm_fold ==
    /\ wPc = "fold"
    /\ LET f == Fold(variant, chat_messages, tools_output)
       IN  /\ chat_messages' = f.msgs
           /\ wPc' = IF f.raised THEN "except" ELSE "chat"
           /\ ended' = IF f.raised THEN Append(ended, "raised") ELSE ended
    /\ UNCHANGED <<variant, detector_set, task_queue, unfinished, shutdown_event,
                   handoff, must_cancel, cur, tools_output, message_content, shPc,
                   bridge_stopped, nCreated, enqueued, started, atStop, preChat,
                   fired, turnBase, pureVars>>

\* lines 99-102: chat(model, messages=self.chat_messages, stream=True) raises or
\* hands back the stream
pm_chat ==
    /\ wPc = "chat"
    /\ \E fails \in BOOLEAN :
          /\ preChat' = [called |-> TRUE, failed |-> fails, msgs |-> chat_messages]
          /\ wPc' = IF fails THEN "chat_except" ELSE "stream"
    /\ UNCHANGED <<variant, detector_set, chat_messages, task_queue, unfinished,
                   shutdown_event, handoff, must_cancel, cur, tools_output,
                   message_content, shPc, bridge_stopped, nCreated, enqueued,
                   started, ended, atStop, fired, turnBase, pureVars>>

\* lines 104-114: each chunk is added to message_content; the assistant message
\* is appended once the stream has ended; the stream may raise at any chunk
pm_stream ==
    /\ wPc = "stream"
    /\ \/ /\ Len(message_content) < MaxChunks
          /\ message_content' = Append(message_content, "chunk")
          /\ UNCHANGED <<chat_messages, wPc, ended, preChat>>
       \/ /\ preChat' = [preChat EXCEPT !.failed = TRUE]
          /\ wPc' = "chat_except"
          /\ UNCHANGED <<chat_messages, message_content, ended>>
       \/ /\ chat_messages' = Append(chat_messages, Message("assistant", message_content))
          /\ ended' = Append(ended, "returned")
          /\ wPc' = "taskdone"
          /\ UNCHANGED <<message_content, preChat>>
    /\ UNCHANGED <<variant, detector_set, task_queue, unfinished, shutdown_event,
                   handoff, must_cancel, cur, tools_output, shPc, bridge_stopped,
                   nCreated, enqueued, started, atStop, fired, turnBase, pureVars>>

\* variation of OnChatError: the turn is rolled back, the last message is dropped
OnChatErrorRollsBack(msgs, partial) == SubSeq(msgs, 1, Len(msgs) - 1)

\* variation of OnChatError: what was streamed so far is appended
OnChatErrorKeepsPartial(msgs, partial) == Append(msgs, Message("assistant", partial))

\* lines 116-119: except Exception: print(...); the transcript is not touched
OnChatError(msgs, partial) == msgs

\* where process_message goes from its except clause: it returns
AfterChatError == "taskdone"

pm_chat_except ==
    /\ wPc = "chat_except"
    /\ chat_messages' = OnChatError(chat_messages, message_content)
    /\ wPc' = AfterChatError
    /\ ended' = Append(ended, IF AfterChatError = "taskdone" THEN "returned" ELSE "raised")
    /\ UNCHANGED <<variant, detector_set, task_queue, unfinished, shutdown_event,
                   handoff, must_cancel, cur, tools_output, message_content, shPc,
                   bridge_stopped, nCreated, enqueued, started, atStop, preChat,
                   fired, turnBase, pureVars>>

-----------------------------------------------------------------------------
(* shutdown, lines 192-209 (client2.py 142-163) *)

\* Task.cancel(): a task waiting in Queue.get is woken with CancelledError, a
\* task that has not run yet or is already scheduled gets it at its next step,
\* a finished task is left alone
CancelWorker ==
    /\ wPc' = IF wPc = "waiting" THEN "woken" ELSE wPc
    /\ must_cancel' = IF wPc \in {"created", "waiting", "woken"} THEN TRUE ELSE must_cancel

\* lines 204-209, and client2.py 161-163 once the worker has been awaited
ShutdownTail ==
    /\ IF wPc = "none"
       THEN UNCHANGED <<wPc, must_cancel>>
       ELSE CancelWorker
    /\ shPc' = IF wPc \in Finished \cup {"none"} THEN "done" ELSE "await"
    /\ bridge_stopped' = (bridge_stopped \/ (shPc' = "done" /\ variant = "client2"))

\* lines 198-201: set the flag, then await self.task_queue.join()
shutdown_call ==
    /\ LoopFree
    /\ shPc = "idle"
    /\ shutdown_event' = TRUE
    /\ atStop' = [set |-> TRUE, enq |-> enqueued, ended |-> Len(ended), wPc |-> wPc]
    /\ IF JoinBlocks
       THEN /\ shPc' = "join"
            /\ UNCHANGED <<wPc, must_cancel, bridge_stopped>>
       ELSE ShutdownTail
    /\ UNCHANGED <<variant, detector_set, chat_messages, task_queue, unfinished,
                   handoff, cur, tools_output, message_content, nCreated,
                   enqueued, started, ended, preChat, fired, turnBase, pureVars>>

\* join() returns once the _finished event has been set
shutdown_joined ==
    /\ LoopFree
    /\ shPc = "joined"
    /\ ShutdownTail
    /\ UNCHANGED <<variant, detector_set, chat_messages, task_queue, unfinished,
                   shutdown_event, handoff, cur, tools_output, message_content,
                   nCreated, enqueued, started, ended, atStop, preChat, fired, turnBase, pureVars>>

\* lines 206-209: await self.worker_task returns when the task has finished; a
\* CancelledError it raises is caught
shutdown_awaited ==
    /\ shPc = "await"
    /\ wPc \in Finished
    /\ shPc' = "done"
    /\ bridge_stopped' = (variant = "client2")
    /\ UNCHANGED <<variant, detector_set, chat_messages, task_queue, unfinished,
                   shutdown_event, handoff, wPc, must_cancel, cur, tools_output,
                   message_content, nCreated, enqueued, started, ended, atStop,
                   preChat, fired, turnBase, pureVars>>

-----------------------------------------------------------------------------
(* Specifications *)

WorkerNext ==
    \/ worker_start
    \/ worker_loop
    \/ worker_get
    \/ worker_wake
    \/ pm_user
    \/ pm_detect
    \/ pm_fold
    \/ pm_chat
    \/ pm_stream
    \/ pm_chat_except
    \/ worker_task_done
    \/ worker_except

ShutdownResume ==
    \/ shutdown_joined
    \/ shutdown_awaited

Next ==
    \/ sync_on_message
    \/ handoff_step
    \/ enqueue_message
    \/ run_worker
    \/ shutdown_call
    \/ WorkerNext
    \/ ShutdownResume

Spec == Init /\ [][Next]_vars

\* the event loop runs every task that is ready
FairSpec ==
    /\ Spec
    /\ WF_vars(WorkerNext)
    /\ WF_vars(ShutdownResume)
    /\ WF_vars(handoff_step)

-----------------------------------------------------------------------------
(* DetectSpec: detect_tool applied to every input of DetectInputs *)

DetectInit ==
    /\ PipeInit
    /\ dPc = "call"
    /\ dInput \in DetectInputs
    /\ dResult = NoResult
    /\ ExecIdle

detect_call ==
    /\ dPc = "call"
    /\ dResult' = detect_tool(dInput)
    /\ dPc' = "done"
    /\ UNCHANGED <<pipeVars, dInput, execVars>>

DetectNext == detect_call

DetectSpec == DetectInit /\ [][DetectNext]_vars

-----------------------------------------------------------------------------
(* ExecSpec: execute_tool applied to every input of ExecInputs *)

ExecInit ==
    /\ PipeInit
    /\ dPc = "idle"
    /\ dInput = NoInput
    /\ dResult = NoResult
    /\ ePc = "call"
    /\ eInput \in ExecInputs
    /\ eResult = ExecValue(0)

execute_call ==
    /\ ePc = "call"
    /\ eResult' = execute_tool(eInput)
    /\ ePc' = "done"
    /\ UNCHANGED <<pipeVars, detVars, eInput>>

ExecNext == execute_call

ExecSpec == ExecInit /\ [][ExecNext]_vars

-----------------------------------------------------------------------------
(* Properties of execute_tool (ExecSpec) *)

\* C11: execute_tool never raises, whatever the tool name and the arguments:
\* for an unregistered name it returns the tool-not-found text, and when the
\* registered callable raises it returns the execution-failed text with the cause.
C11_ExecuteNeverRaises ==
    ePc = "done" =>
        /\ ~eResult.raised
        /\ eInput.tool_name \notin eInput.tools =>
               (eResult.is_text /\ eResult.text = NotFoundText(eInput.tool_name))
        /\ (eInput.tool_name \in eInput.tools
                /\ DOMAIN eInput.kwargs # Params(eInput.tool_name)) =>
               (eResult.is_text
                    /\ eResult.text = ExecFailedText(eInput.tool_name, TypeErrorText))

\* C13: execute_tool with a registered name and arguments that match the
\* callable's parameters returns the callable's own value, not a text; for
\* add_numbers that value is first + second (2 and 3 give 5).
C13_ExecuteReturnsCallableValue ==
    ( /\ ePc = "done"
      /\ eInput.tool_name \in eInput.tools
      /\ DOMAIN eInput.kwargs = Params(eInput.tool_name) )
    => /\ ~eResult.raised
       /\ ~eResult.is_text
       /\ eInput.tool_name = "add_numbers" =>
              eResult.ret = eInput.kwargs.first + eInput.kwargs.second

\* execute_tool("add_numbers", first=2, second=3) has returned 5
C13_Witness ==
    /\ ePc = "done"
    /\ eInput.tool_name = "add_numbers"
    /\ eInput.tool_name \in eInput.tools
    /\ eInput.kwargs = [first |-> 2, second |-> 3]
    /\ eResult = ExecValue(5)

-----------------------------------------------------------------------------
(* Properties of detect_tool (DetectSpec) *)

\* the reply text holds the marker somewhere
MarkerSomewhere(content) == \E i \in 1..Len(content) : content[i] = InfoReq

\* directive d names a registered tool whose callable returns normally
GoodDirective(in, d) == d.name \in in.tools /\ ~CallTool(d.name, d.arguments).raised

\* directive d names a registered tool whose callable raises
RaisingDirective(in, d) == d.name \in in.tools /\ CallTool(d.name, d.arguments).raised

\* the detection goes past the marker test and a callable it runs raises
ToolFailure(in) ==
    /\ ~in.raised
    /\ ~MarkerSomewhere(in.message.content)
    /\ \E i \in 1..Len(in.message.tool_calls) : RaisingDirective(in, in.message.tool_calls[i])

\* no callable raises, some tool message is built and json.dumps rejects it
JsonFailure(in) ==
    /\ ~in.raised
    /\ ~MarkerSomewhere(in.message.content)
    /\ ~ToolFailure(in)
    /\ \E i \in 1..Len(in.message.tool_calls) : GoodDirective(in, in.message.tool_calls[i])
    /\ ~in.json_ok

\* C7: detect_tool never lets an exception out: when the classification-model
\* call fails, or a callable run inside detection raises, or the serialisation
\* of the result raises, it returns a list of exactly one tool-role message whose
\* content is the text of that error.
C7_DetectNeverPropagates ==
    dPc = "done" =>
        /\ ~dResult.raised
        /\ dInput.raised => dResult.out = <<Message("tool", ChatErrorText)>>
        /\ ToolFailure(dInput) => dResult.out = <<Message("tool", TypeErrorText)>>
        /\ JsonFailure(dInput) => dResult.out = <<Message("tool", JsonErrorText)>>

\* a callable raised after an earlier directive of the same reply had succeeded
C7_Witness ==
    /\ dPc = "done"
    /\ ToolFailure(dInput)
    /\ Len(dResult.executed) = 2
    /\ dResult.out = <<Message("tool", TypeErrorText)>>

\* C8: whenever the reply text holds INFO_REQ anywhere, detect_tool returns
\* exactly the reply message and runs no tool callable, also when the reply
\* carries tool-call directives.
C8_InfoReqStopsTools ==
    (dPc = "done" /\ ~dInput.raised /\ MarkerSomewhere(dInput.message.content)) =>
        /\ dResult.out = <<dInput.message>>
        /\ dResult.executed = <<>>

\* the marker is not the first token and the reply names a registered tool
C8_Witness ==
    /\ dPc = "done"
    /\ ~dInput.raised
    /\ dInput.message.content = <<"need", InfoReq>>
    /\ dInput.message.tool_calls # <<>>
    /\ GoodDirective(dInput, dInput.message.tool_calls[1])
    /\ dResult.out = <<dInput.message>>

\* C9: for a reply without INFO_REQ whose k directives all name registered
\* tools whose callables return normally, detect_tool returns exactly k
\* tool-role messages, the i-th holding the text of the i-th call's result
\* (one add_numbers{first:1, second:1} gives one tool message "2").
C9_EachDirectiveYieldsItsResult ==
    LET calls == dInput.message.tool_calls
    IN  ( /\ dPc = "done"
          /\ ~dInput.raised
          /\ ~MarkerSomewhere(dInput.message.content)
          /\ \A i \in 1..Len(calls) : GoodDirective(dInput, calls[i]) )
        => /\ Len(dResult.out) = Len(calls)
           /\ \A i \in 1..Len(calls) :
                  dResult.out[i] =
                      Message("tool", Str(CallTool(calls[i].name, calls[i].arguments).ret))

\* C10: a directive that names an unregistered tool, or whose callable raises,
\* still yields one tool-role message, and the messages of the other directives
\* stay in their positions: k directives give k tool-role messages.  (Stated for
\* the results json.dumps accepts, so that the failure is this claim's own.)
C10_OneMessagePerDirective ==
    LET calls == dInput.message.tool_calls
    IN  ( /\ dPc = "done"
          /\ ~dInput.raised
          /\ ~MarkerSomewhere(dInput.message.content)
          /\ dInput.json_ok )
        => /\ Len(dResult.out) = Len(calls)
           /\ \A i \in 1..Len(calls) :
                  /\ dResult.out[i].role = "tool"
                  /\ GoodDirective(dInput, calls[i]) =>
                         dResult.out[i].content =
                             Str(CallTool(calls[i].name, calls[i].arguments).ret)

-----------------------------------------------------------------------------
(* Properties of the pipeline (Spec, FairSpec) *)

\* the message the worker has taken from the queue and not yet begun on
Taken == IF wPc = "process" THEN <<cur>> ELSE <<>>

\* process_message has begun on m and has finished (returned or raised)
FullyProcessed(m) == \E i \in 1..Len(ended) : started[i] = m

\* every message enqueued before the stop flag was set has been fully processed
DrainedAtStop == \A i \in 1..Len(atStop.enq) : FullyProcessed(atStop.enq[i])

\* the worker task had been started and was alive when the stop flag was set
StoppedWhileRunning == atStop.set /\ atStop.wPc \in {"waiting", "woken"}

\* C1: the worker takes the utterances in exactly the order task_queue.put
\* accepted them, and begins on an utterance only when the processing of every
\* earlier one has finished: at most one process_message is under way.
C1_FifoOneAtATime ==
    /\ enqueued = started \o Taken \o task_queue
    /\ Len(started) - Len(ended) \in {0, 1}
    /\ Taken # <<>> => Len(started) = Len(ended)

\* two utterances were put in the order 2, 1 and both have been processed
C1_Witness ==
    /\ enqueued = <<2, 1>>
    /\ started = <<2, 1>>
    /\ Len(ended) = 2

\* C2: after a shutdown request made while the worker is running, the worker
\* goes on until it has processed every message that was in the queue when the
\* flag was set; it does not end before.  (Stated for the runs in which no
\* process_message raised, so that the failure is this claim's own.)
C2_WorkerDrainsAfterStop ==
    ( /\ StoppedWhileRunning
      /\ wPc \in Finished
      /\ \A i \in 1..Len(ended) : ended[i] = "returned" )
    => DrainedAtStop

\* C3: shutdown cancels the worker task, and returns, only when every message
\* enqueued before the shutdown request has been fully processed: first the
\* flag, then the drained queue, then the cancellation and the await.
C3_CancelOnlyAfterDrain ==
    /\ (shPc # "idle") = shutdown_event
    /\ must_cancel => shPc = "await"
    /\ shPc \in {"await", "done"} => DrainedAtStop

\* shutdown has returned and a message was still unprocessed when it was called
C3_Witness ==
    /\ shPc = "done"
    /\ Len(atStop.enq) > atStop.ended
    /\ DrainedAtStop

\* C4: when N >= 1 messages are enqueued and shutdown is called with no
\* consumer ever started, shutdown eventually returns with all N processed.
C4_ShutdownWithoutWorkerReturns ==
    (atStop.set /\ atStop.wPc = "none" /\ atStop.enq # <<>>)
        ~> (shPc = "done" /\ DrainedAtStop)

\* processing of the latest message raised out of process_message
PoisonRaised == wPc = "except"

\* C5: an exception of process_message does not end the worker: the worker task
\* ends only once shutdown has been requested, and after a message raised with
\* no shutdown requested, the message then at the front of the queue is the next
\* one process_message begins on, and its processing finishes.  (The front of
\* the queue is named by its place in the order of the puts, which never
\* changes afterwards.)
C5_PoisonDoesNotKillWorker ==
    /\ [](wPc \in Finished => shutdown_event)
    /\ []((PoisonRaised /\ task_queue # <<>>) =>
              Head(task_queue) = enqueued[Len(started) + 1])
    /\ \A n \in 1..(MaxMsgs - 1) :
           ( /\ PoisonRaised
             /\ ~shutdown_event
             /\ Len(started) = n
             /\ task_queue # <<>> )
           ~> ( /\ Len(started) > n
                /\ started[n + 1] = enqueued[n + 1]
                /\ Len(ended) > n )

\* the first message raised, a second one was processed after it, no shutdown
C5_Witness ==
    /\ Len(ended) = 2
    /\ ended[1] = "raised"
    /\ Len(started) = 2
    /\ ~shutdown_event

\* C6: when the primary-model call has failed, at the invocation or in the
\* middle of the stream, process_message returns normally and the transcript is
\* what it was right before the call.
C6_ChatFailureLeavesTranscript ==
    (preChat.failed /\ wPc # "chat_except") =>
        /\ chat_messages = preChat.msgs
        /\ wPc # "except"
        /\ Len(ended) = Len(started)
        /\ ended[Len(ended)] = "returned"

\* the stream failed after a chunk had been received, and process_message returned
C6_Witness ==
    /\ preChat.failed
    /\ wPc = "taskdone"
    /\ message_content # <<>>
    /\ chat_messages = preChat.msgs

\* process_message is under way or has just ended (returned or raised) on cur
TurnEnded == wPc \in {"taskdone", "except"}

\* the message line 82 appends for the utterance the worker holds
UserMsg == Message("user", Str(cur))

\* the detection of the turn produced k >= 1 tool-output messages
ToolResults ==
    /\ detector_set
    /\ tools_output # <<>>
    /\ \A i \in 1..Len(tools_output) : tools_output[i].role = "tool"

\* the detection of the turn produced the info request, the reply itself
NeedsInfo ==
    /\ detector_set
    /\ Len(tools_output) = 1
    /\ tools_output[1].role = "assistant"
    /\ HasInfoReq(tools_output[1].content)

\* a is an initial part of b
IsPrefix(a, b) == Len(a) <= Len(b) /\ SubSeq(b, 1, Len(a)) = a

\* C12: when shutdown has returned after a worker had been started, the worker
\* task has terminated and the transcription bridge has been told to stop.
C12_StoppedWhenShutdownReturns ==
    (shPc = "done" /\ atStop.wPc # "none") =>
        /\ wPc \in Finished
        /\ bridge_stopped

\* C14: a turn whose detection gave the empty result has called the primary
\* model with the transcript of before the turn and the user message only, and
\* after a successful stream the transcript has grown by [user, assistant].
C14_NoToolTurnGrowsByTwo ==
    (TurnEnded /\ detector_set /\ tools_output = <<>>) =>
        /\ preChat.called
        /\ preChat.msgs = Append(turnBase, UserMsg)
        /\ ~preChat.failed =>
               chat_messages = turnBase \o <<UserMsg, Message("assistant", message_content)>>

\* C15: a turn whose detection gave k >= 1 tool-output messages has called the
\* primary model with the user message, the k messages in order and one system
\* instruction appended, and after a successful stream the transcript has grown
\* by [user, tool_1..tool_k, system, assistant].
C15_ToolTurnAppendsInstruction ==
    (TurnEnded /\ ToolResults) =>
        /\ preChat.called
        /\ preChat.msgs = turnBase \o <<UserMsg>> \o tools_output \o <<FinalPrompt(tools_output)>>
        /\ ~preChat.failed =>
               chat_messages = preChat.msgs \o <<Message("assistant", message_content)>>

\* C20: a turn whose detection gave the info request has appended it right
\* after the user message, then the system instruction, and has called the
\* primary model with that transcript.
C20_NeedsInfoContinuesToChat ==
    (TurnEnded /\ NeedsInfo) =>
        /\ IsPrefix(turnBase \o <<UserMsg, tools_output[1]>>, chat_messages)
        /\ preChat.called
        /\ preChat.msgs = turnBase \o <<UserMsg, tools_output[1], FinalPrompt(tools_output)>>

\* m was delivered to the bridge callback
ViaBridge(m) == \E i \in 1..Len(fired) : fired[i] = m

\* the utterances whose process_message has begun, as the texts line 82 appends
StartedTexts == [i \in 1..Len(started) |-> Str(started[i])]

IsUserMessage(msg) == msg.role = "user"

\* the texts of the user-role messages of the transcript, in order
UserTexts ==
    LET users == SelectSeq(chat_messages, IsUserMessage)
    IN  [i \in 1..Len(users) |-> users[i].content]

\* process_message is running on the loop
InProcessMessage == wPc \in {"process", "detect", "fold", "chat", "stream", "chat_except"}

\* C16: the utterances delivered to sync_on_message that have been put on the
\* queue, followed by those still scheduled, are the delivered utterances in the
\* order the callbacks fired (none lost, none twice, none out of order); every
\* scheduled utterance is eventually put; and the callback can fire whatever
\* the worker is doing: it waits for nothing.
C16_BridgeKeepsOrder ==
    /\ [](SelectSeq(enqueued, ViaBridge) \o handoff = fired)
    /\ [](nCreated < MaxMsgs => ENABLED sync_on_message)
    /\ \A m \in 1..MaxMsgs :
           (\E i \in 1..Len(handoff) : handoff[i] = m)
               ~> (\E i \in 1..Len(enqueued) : enqueued[i] = m)

\* the callback has fired twice: the first utterance has reached the queue, the
\* second is still scheduled while the worker is inside process_message
C16_Witness ==
    /\ Len(fired) = 2
    /\ SelectSeq(enqueued, ViaBridge) = <<fired[1]>>
    /\ handoff = <<fired[2]>>
    /\ InProcessMessage

\* C17: the transcript starts with the persona system message, its second
\* element is never a system message, and every step leaves the previous
\* transcript as a prefix of the new one.
C17_TranscriptAppendOnly ==
    /\ [](/\ chat_messages # <<>>
          /\ chat_messages[1] = Message("system", Persona)
          /\ Len(chat_messages) >= 2 => chat_messages[2].role # "system")
    /\ [][IsPrefix(chat_messages, chat_messages')]_vars

\* a failed primary-model call followed by a second turn that appended to the
\* transcript
C17_Witness ==
    /\ preChat.failed
    /\ Len(started) = 2
    /\ Len(chat_messages) >= 3
    /\ \E i \in 1..Len(ended) : ended[i] = "raised"

\* C18: the transcript changes only in a step of process_message; a step in
\* which the callback fires, a message is put or shutdown advances leaves it
\* unchanged; and a put changes the queue only (its items, its count of
\* unfinished tasks, the wake-up of the waiting getter).
C18_OnlyWorkerWritesTranscript ==
    /\ [][chat_messages' # chat_messages => InProcessMessage]_vars
    /\ [][(fired' # fired \/ enqueued' # enqueued \/ shPc' # shPc \/ shutdown_event' # shutdown_event)
              => chat_messages' = chat_messages]_vars
    /\ [][enqueued' # enqueued =>
              /\ UNCHANGED <<variant, detector_set, chat_messages, shutdown_event,
                             must_cancel, cur, tools_output, message_content, shPc,
                             bridge_stopped, started, ended, fired>>
              /\ wPc' # wPc => (wPc = "waiting" /\ wPc' = "woken")]_vars

\* the callback has fired, messages were put directly and through the bridge,
\* shutdown has returned, and the worker has written to the transcript
C18_Witness ==
    /\ shPc = "done"
    /\ fired # <<>>
    /\ Len(enqueued) = MaxMsgs
    /\ Len(chat_messages) >= 3

\* C19: no utterance is begun twice, and the user-role messages of the
\* transcript are, in order, exactly the utterances whose processing has begun.
C19_UserMessagesAreStarted ==
    /\ \A i, j \in 1..Len(started) : started[i] = started[j] => i = j
    /\ Len(started) <= Len(enqueued)
    /\ UserTexts = StartedTexts

\* two utterances have been begun, the first of them ended by an exception
C19_Witness ==
    /\ Len(started) = 2
    /\ Len(ended) = 2
    /\ ended[1] = "raised"
    /\ Len(UserTexts) = 2

\* C21: every dequeued message is acknowledged with task_done once, whether
\* process_message returned or raised: whenever the worker waits in queue.get()
\* for the next item, the queue's count of unfinished tasks is the number of
\* messages still queued.
C21_AcknowledgedOncePerMessage ==
    wPc = "waiting" => unfinished = Len(task_queue)

====
